---- MODULE Spec2Model ----
(***************************************************************************)
(* AMBuild 2: the parallel task master (ambuild2/task.py) and the node     *)
(* store rows it is meant to update (ambuild2/database.py).                *)
(*                                                                         *)
(* Three kinds of process exchange messages:                               *)
(*   - the workers (WorkerChild), one task at a time;                      *)
(*   - the task master (TaskMasterChild, with its WorkerParent listeners); *)
(*   - the driver (TaskMasterParent, with its WorkerIOListener).           *)
(* Every handler of task.py is one action.  The handlers of the task       *)
(* master call one another, so they are written as operators from a        *)
(* master state record to a master state record and composed as in the     *)
(* code.                                                                   *)
(***************************************************************************)
EXTENDS Integers, Sequences, FiniteSets, TLC

VARIABLES
  cx,                 \* cx.options and, until __init__ has run, its inputs
  num_processes,      \* TaskMasterParent.__init__: number of workers
  tasks,              \* ids of the Task objects of the run
  outgoing,           \* Task.outgoing, per task id (a list)
  deps,               \* Task.incoming as built (never changes)
  incoming,           \* Task.incoming, per task id (shrinks)
  task_graph,         \* TaskMasterChild.task_graph: the ready list
  outstanding,        \* TaskMasterChild.outstanding: task id -> child
  idle,               \* TaskMasterChild.idle
  build_failed,       \* TaskMasterChild.build_failed
  closed,             \* children procman.close() was called on
  pump_cancelled,     \* TaskMasterChild: self.pump.cancel() was called
  toWorker,           \* per worker: messages master -> worker
  chan,               \* per worker: messages worker -> master (task channel)
  resChan,            \* per worker: messages worker -> driver (result channel)
  wpc,                \* per worker: position of the worker process
  wcur,               \* per worker: the response of the task it has run
  completed,          \* every 'completed' message sent to the driver, in order
  completed_read,     \* how many of them the driver has received
  parent_build_failed,\* TaskMasterParent.build_failed
  tm_close,           \* close request driver -> task master
  nodes,              \* the nodes table: id -> row
  sent,               \* per task: number of 'task' messages sent for it
  ran,                \* per task: the ranTask the master has received
  processed,          \* task ids whose results message was processed
  cn,                 \* Database.cn: the tables of the sqlite database
  node_cache_,        \* Database.node_cache_: id -> Entry
  path_cache_,        \* Database.path_cache_: path -> Entry (by id)
  unlinked,           \* Entry objects deleted from node_cache_, still referenced
  calls               \* number of calls made on the node store's process

vars == <<cx, num_processes, tasks, outgoing, deps, incoming, task_graph,
          outstanding, idle, build_failed, closed, pump_cancelled, toWorker,
          chan, resChan, wpc, wcur, completed, completed_read,
          parent_build_failed, tm_close, nodes, sent, ran, processed,
          cn, node_cache_, path_cache_, unlinked, calls>>

(***************************************************************************)
(* Bounds of the model.                                                    *)
(***************************************************************************)
MaxTasks == 3        \* task ids are 1..MaxTasks
MaxParallel == 2     \* max_parallel of a run is 1..MaxParallel
MaxCpu == 2          \* mp.cpu_count() of a run is 1..MaxCpu
MaxMtime == 1        \* os.path.getmtime of an output is 1..MaxMtime
MaxCrashes == 1      \* workers that die abnormally in one run
MaxJobs == 2         \* the jobs option is 0..MaxJobs (worker count only)
MaxCpuCount == 7     \* cpu counts 1..MaxCpuCount (worker count only)
MaxTaskCount == 7    \* max_parallel 1..MaxTaskCount (worker count only)

Unbound == -1        \* a local read before assignment: UnboundLocalError

TaskIds == 1 .. MaxTasks
AllWorkers == 1 .. MaxParallel
Workers == 1 .. num_processes

Min(a, b) == IF a < b THEN a ELSE b
Max(a, b) == IF a > b THEN a ELSE b

(***************************************************************************)
(* TaskMasterParent.__init__: the number of worker processes.              *)
(***************************************************************************)
AutoProcesses(cpu_count) ==
  IF cpu_count = 1 THEN 2 ELSE (cpu_count * 3) \div 2   \* int(cpu_count * 1.5)

NumProcesses(jobs, cpu_count, max_parallel) ==
  LET n == IF jobs = 0 THEN AutoProcesses(cpu_count) ELSE Unbound
  IN  IF n = Unbound THEN Unbound
      ELSE IF n > max_parallel THEN max_parallel ELSE n

(***************************************************************************)
(* Lists.                                                                  *)
(***************************************************************************)
RECURSIVE SeqOfSet(_)
SeqOfSet(S) ==
  IF S = {} THEN <<>>
  ELSE LET m == CHOOSE x \in S : \A y \in S : x <= y
       IN  <<m>> \o SeqOfSet(S \ {m})

Range(s) == {s[i] : i \in 1 .. Len(s)}

(***************************************************************************)
(* The task graph handed to the task master.  Command node ids are the     *)
(* task ids; task t has one output, node OutputOf(t).                      *)
(***************************************************************************)
OutputOf(t) == MaxTasks + t
Task_outputs(t) == <<OutputOf(t)>>

Edges == {e \in TaskIds \X TaskIds : e[1] < e[2]}

(***************************************************************************)
(* Messages.                                                               *)
(***************************************************************************)
NormalShutdown == "NormalShutdown"     \* ipc.Error.NormalShutdown
Crashed == "Crashed"                   \* any other ipc.Error

TaskMsg(t) == [id |-> "task", task_id |-> t]
CloseMsg == [id |-> "close", task_id |-> 0]
ReadyMsg == [id |-> "ready", ok |-> TRUE, task_id |-> 0, error |-> ""]
RanTaskMsg(ok, t) == [id |-> "ranTask", ok |-> ok, task_id |-> t, error |-> ""]
ErrorMsg(e) == [id |-> "error", ok |-> TRUE, task_id |-> 0, error |-> e]
CompletedMsg(status, t) == [id |-> "completed", status |-> status, task_id |-> t]
ResultsMsg(w, t, ok, updates) ==
  [id |-> "results", pid |-> w, task_id |-> t, ok |-> ok, updates |-> updates]

(***************************************************************************)
(* The state of the TaskMasterChild process as one record, so that its     *)
(* handlers compose.                                                       *)
(***************************************************************************)
Master ==
  [task_graph |-> task_graph, incoming |-> incoming,
   outstanding |-> outstanding, idle |-> idle, build_failed |-> build_failed,
   closed |-> closed, pump_cancelled |-> pump_cancelled,
   toWorker |-> toWorker, completed |-> completed, sent |-> sent, ran |-> ran]

SetMaster(m) ==
  /\ task_graph' = m.task_graph
  /\ incoming' = m.incoming
  /\ outstanding' = m.outstanding
  /\ idle' = m.idle
  /\ build_failed' = m.build_failed
  /\ closed' = m.closed
  /\ pump_cancelled' = m.pump_cancelled
  /\ toWorker' = m.toWorker
  /\ completed' = m.completed
  /\ sent' = m.sent
  /\ ran' = m.ran

\* self.procman.close(child): the child is told to close, once.
procman_close(m, child) ==
  IF child \in m.closed THEN m
  ELSE [m EXCEPT !.closed = @ \cup {child},
                 !.toWorker[child] = Append(@, CloseMsg)]

\* self.channel.send({'id': 'completed', ...})
channel_send(m, msg) == [m EXCEPT !.completed = Append(@, msg)]

\* TaskMasterChild.close_idle
RECURSIVE close_all(_, _)
close_all(m, children) ==
  IF children = {} THEN m
  ELSE LET c == CHOOSE x \in children : \A y \in children : x <= y
       IN  close_all(procman_close(m, c), children \ {c})

close_idle(m) == [close_all(m, m.idle) EXCEPT !.idle = {}]

\* TaskMasterChild.buildFailed
buildFailed(m) ==
  IF ~m.build_failed
  THEN close_idle([m EXCEPT !.build_failed = TRUE])
  ELSE m

\* A task master that reports the build complete as soon as the ready list
\* is empty, without looking at the outstanding table.
onWorkerReady_ignoring_outstanding(m, child) ==
  IF Len(m.task_graph) = 0 THEN
    [m |-> channel_send(close_idle(procman_close(m, child)),
                        CompletedMsg("ok", 0)),
     ret |-> FALSE]
  ELSE IF m.build_failed THEN
    [m |-> procman_close(m, child), ret |-> FALSE]
  ELSE
    LET task == m.task_graph[Len(m.task_graph)]
    IN  [m |-> [m EXCEPT
                  !.task_graph = SubSeq(@, 1, Len(@) - 1),
                  !.toWorker[child] = Append(@, TaskMsg(task)),
                  !.outstanding = [t \in DOMAIN @ \cup {task} |->
                                     IF t = task THEN child ELSE @[t]],
                  !.sent[task] = @ + 1],
         ret |-> TRUE]

\* A task master that reads the last task of the ready list and leaves it
\* there (self.task_graph[-1] for self.task_graph.pop()).
onWorkerReady_without_pop(m, child) ==
  IF Len(m.task_graph) = 0 THEN
    IF DOMAIN m.outstanding # {}
    THEN [m |-> [m EXCEPT !.idle = @ \cup {child}], ret |-> FALSE]
    ELSE [m |-> channel_send(close_idle(procman_close(m, child)),
                             CompletedMsg("ok", 0)),
          ret |-> FALSE]
  ELSE IF m.build_failed THEN
    [m |-> procman_close(m, child), ret |-> FALSE]
  ELSE
    LET task == m.task_graph[Len(m.task_graph)]
    IN  [m |-> [m EXCEPT
                  !.toWorker[child] = Append(@, TaskMsg(task)),
                  !.outstanding = [t \in DOMAIN @ \cup {task} |->
                                     IF t = task THEN child ELSE @[t]],
                  !.sent[task] = @ + 1],
         ret |-> FALSE]

\* TaskMasterChild.onWorkerReady: the new state and the returned boolean.
onWorkerReady(m, child) ==
  IF Len(m.task_graph) = 0 THEN
    IF DOMAIN m.outstanding # {}
    THEN [m |-> [m EXCEPT !.idle = @ \cup {child}], ret |-> FALSE]
    ELSE [m |-> channel_send(close_idle(procman_close(m, child)),
                             CompletedMsg("ok", 0)),
          ret |-> FALSE]
  ELSE IF m.build_failed THEN
    [m |-> procman_close(m, child), ret |-> FALSE]
  ELSE
    LET task == m.task_graph[Len(m.task_graph)]       \* self.task_graph.pop()
    IN  [m |-> [m EXCEPT
                  !.task_graph = SubSeq(@, 1, Len(@) - 1),
                  !.toWorker[child] = Append(@, TaskMsg(task)),
                  !.outstanding = [t \in DOMAIN @ \cup {task} |->
                                     IF t = task THEN child ELSE @[t]],
                  !.sent[task] = @ + 1],
         ret |-> TRUE]

\* TaskMasterChild.onWorkerRanTask, lines 233-238: the tasks whose last
\* outstanding dependency was `task` are appended to the ready list.
RECURSIVE release_unconditionally(_, _, _)
release_unconditionally(m, task, out) ==
  IF out = <<>> THEN m
  ELSE LET o == Head(out)
           m1 == [m EXCEPT !.incoming[o] = @ \ {task}]
           m2 == [m1 EXCEPT !.task_graph = Append(@, o)]
       IN  release_unconditionally(m2, task, Tail(out))

RECURSIVE release_test_first(_, _, _)
release_test_first(m, task, out) ==
  IF out = <<>> THEN m
  ELSE LET o == Head(out)
           m1 == [m EXCEPT !.incoming[o] = @ \ {task}]
           m2 == IF m.incoming[o] = {}
                 THEN [m1 EXCEPT !.task_graph = Append(@, o)]
                 ELSE m1
       IN  release_test_first(m2, task, Tail(out))

RECURSIVE release(_, _, _)
release(m, task, out) ==
  IF out = <<>> THEN m
  ELSE LET o == Head(out)
           m1 == [m EXCEPT !.incoming[o] = @ \ {task}]
           m2 == IF m1.incoming[o] = {}
                 THEN [m1 EXCEPT !.task_graph = Append(@, o)]
                 ELSE m1
       IN  release(m2, task, Tail(out))

\* TaskMasterChild.onWorkerRanTask, lines 242-246: every way the loop can
\* run, set.pop() returning any element of the idle set.
RECURSIVE use_idle(_)
use_idle(m) ==
  IF Len(m.task_graph) > 0 /\ m.idle # {}
  THEN UNION {LET r == onWorkerReady([m EXCEPT !.idle = @ \ {child}], child)
              IN  IF r.ret THEN use_idle(r.m) ELSE {r.m} : child \in m.idle}
  ELSE {m}

\* TaskMasterChild.onWorkerRanTask: the set of states it can end in.
onWorkerRanTask(m, child, message) ==
  IF ~message.ok THEN
    {buildFailed(procman_close(
       channel_send([m EXCEPT !.ran[message.task_id] = "failed"],
                    CompletedMsg("failed", 0)),
       child))}
  ELSE
    LET task_id == message.task_id
        holder == m.outstanding[task_id]
        m1 == [m EXCEPT !.ran[task_id] = "ok",
                        !.outstanding = [t \in DOMAIN @ \ {task_id} |-> @[t]]]
        m2 == release(m1, task_id, outgoing[task_id])
    IN  use_idle(onWorkerReady(m2, holder).m)

\* TaskMasterChild.onWorkerCrashed
onWorkerCrashed(m, child, task) ==
  buildFailed(channel_send(m, CompletedMsg("crashed", task)))

onWorkerDied_any_task(m, child, error, alive) ==
  LET held == DOMAIN m.outstanding
      m1 == IF error # NormalShutdown /\ held # {}
            THEN onWorkerCrashed(m, child,
                   CHOOSE t \in held : \A u \in held : t <= u)
            ELSE m
      m2 == [m1 EXCEPT !.idle = @ \ {child}]
  IN  IF alive \ {child} # {} THEN m2
      ELSE [m2 EXCEPT !.pump_cancelled = TRUE]

\* TaskMasterChild.onWorkerDied; `alive` are the children whose process
\* is_alive().
onWorkerDied(m, child, error, alive) ==
  LET held == {t \in DOMAIN m.outstanding : m.outstanding[t] = child}
      m1 == IF error # NormalShutdown /\ held # {}
            THEN onWorkerCrashed(m, child,
                   CHOOSE t \in held : \A u \in held : t <= u)
            ELSE m
      m2 == [m1 EXCEPT !.idle = @ \ {child}]
  IN  IF alive \ {child} # {} THEN m2
      ELSE [m2 EXCEPT !.pump_cancelled = TRUE]

\* ProcessManager.shutdown (ipc.py): every child is closed.
procman_shutdown(m, children) == close_all(m, children)

(***************************************************************************)
(* The driver process: TaskMasterParent and its WorkerIOListener.          *)
(***************************************************************************)
Driver == [build_failed |-> parent_build_failed, tm_close |-> tm_close,
           nodes |-> nodes]

SetDriver(d) ==
  /\ parent_build_failed' = d.build_failed
  /\ tm_close' = d.tm_close
  /\ nodes' = d.nodes

\* cx.procman.close(child) / cx.procman.shutdown() (ipc.py): the task master
\* child is sent its close request, once.
cx_procman_close(d) ==
  IF d.tm_close = "open" THEN [d EXCEPT !.tm_close = "closing"] ELSE d

terminateBuild_no_shutdown(d) ==
  IF ~d.build_failed THEN [d EXCEPT !.build_failed = TRUE] ELSE d

\* TaskMasterParent.terminateBuild(graceful=True)
terminateBuild(d) ==
  IF ~d.build_failed
  THEN cx_procman_close([d EXCEPT !.build_failed = TRUE])
  ELSE d

\* Database.unmark_dirty, its statement
\* "update nodes set dirty = 0, stamp = ? where id = ?".
update_nodes_stamp(rows, id, stamp) ==
  IF id \in DOMAIN rows
  THEN [rows EXCEPT ![id] = [@ EXCEPT !.dirty = 0, !.stamp = stamp]]
  ELSE rows

\* TaskMasterParent.processResults: the call of builder.update is commented
\* out, so the message's updates reach no row.
processResults(d, message) ==
  IF ~message.ok THEN terminateBuild(d) ELSE d

\* TaskMasterParent.receiveCompleted
receiveCompleted(d, message) ==
  IF message.status = "crashed" THEN terminateBuild(d)
  ELSE IF message.status = "failed" THEN terminateBuild(d)
  ELSE cx_procman_close(d)

(***************************************************************************)
(* The node store (ambuild2/database.py): the tables of the sqlite         *)
(* database behind Database.cn, and the two caches of Entry objects.  An   *)
(* Entry object is named by its node id; a set of Entry objects is a set   *)
(* of ids.  An adjacency attribute of an Entry that is None is the empty   *)
(* set: the code tests these attributes for truth only.  Every method is   *)
(* an operator from a store to the store it leaves, the value it returns   *)
(* and the exception it raises ("" for none).                              *)
(***************************************************************************)
MaxNodes == 4        \* rows ever inserted into the nodes table
MaxCalls == 3        \* Database methods called on one store

None == 0            \* None / NULL where a node id is expected
NoPath == ""         \* None / NULL where a path is expected
NoData == <<>>       \* None / NULL where command data or a blob is expected

Mkdir == "mkd"
Output == "out"
Source == "src"
Group == "grp"
Command == "cmd"
Cxx == "cxx"
GroupPrefix == "//group/./"

\* Entry.isCommand: the types query_commands selects.
isCommand(type) == type \notin {Source, Output, Group, Mkdir}

\* os.path.isabs, os.path.split(path)[0] on the paths of the model.
AbsPaths == {"/s"}
RelPaths == {"d", "d/o"}
Paths == AbsPaths \cup RelPaths
GroupNames == {"g"}
isabs(path) == path \in AbsPaths \/ path = "//group/./g"
split_head(path) == IF path = "d/o" THEN "d" ELSE NoPath
GroupPath(name) == IF name = "g" THEN "//group/./g" ELSE NoPath

\* util.BlobType(util.CompatPickle(data)) and util.Unpickle(blob).
DataValues == {NoData, <<"a">>, <<"b">>}
CompatPickle(data) == <<"pickle">> \o data
Unpickle(blob) == Tail(blob)

Store == [cn |-> cn, node_cache_ |-> node_cache_, path_cache_ |-> path_cache_,
          unlinked |-> unlinked]

SetStore(s) ==
  /\ cn' = s.cn
  /\ node_cache_' = s.node_cache_
  /\ path_cache_' = s.path_cache_
  /\ unlinked' = s.unlinked

Returned(s, ret) == [s |-> s, ret |-> ret, exn |-> ""]
Raised(s, exn) == [s |-> s, ret |-> None, exn |-> exn]

Put(f, k, v) == [x \in DOMAIN f \cup {k} |-> IF x = k THEN v ELSE f[x]]
Del(f, k) == [x \in DOMAIN f \ {k} |-> f[x]]

\* Database.create_tables: the empty tables, and the empty caches of
\* Database.__init__.
create_tables ==
  [cn |-> [nodes |-> <<>>, edges |-> {}, weak_edges |-> {},
           dynamic_edges |-> {}, seq |-> 0],
   node_cache_ |-> <<>>,
   path_cache_ |-> <<>>,
   unlinked |-> <<>>]

\* A row of the nodes table; stamp, dirty and generated default to 0.
Row(type, stamp, dirty, generated, path, folder, data) ==
  [type |-> type, stamp |-> stamp, dirty |-> dirty, generated |-> generated,
   path |-> path, folder |-> folder, data |-> data]

\* "insert into nodes ...": the row gets the next id of the autoincrement
\* sequence, which is cursor.lastrowid.
insert_into_nodes(s, row) ==
  [s EXCEPT !.cn.seq = @ + 1, !.cn.nodes = Put(@, s.cn.seq + 1, row)]

\* nodetypes.Entry(...), its adjacency attributes None.
Entry(type, path, blob, folder, stamp, dirty, generated) ==
  [type |-> type, path |-> path, blob |-> blob, folder |-> folder,
   stamp |-> stamp, dirty |-> dirty, generated |-> generated,
   outgoing |-> {}, strong_inputs |-> {}, dynamic_inputs |-> {},
   weak_inputs |-> {}]

\* Database.flush_caches: the Entry objects of the old dictionaries are no
\* longer reachable from the store.
flush_caches(s) ==
  [s EXCEPT !.node_cache_ = <<>>, !.path_cache_ = <<>>, !.unlinked = <<>>]

\* The Entry object named id: the cached one, else the one drop_entry
\* deleted from node_cache_.
Object(s, id) ==
  IF id \in DOMAIN s.node_cache_ THEN s.node_cache_[id] ELSE s.unlinked[id]

\* Database.query_node and Database.import_node.  `folder_is_entry` says that
\* row[5] is an Entry object (add_file) and not an id read from the table.
RECURSIVE query_node(_, _)
RECURSIVE import_node(_, _, _, _)
import_node(s, id, row, folder_is_entry) ==
  IF id \in DOMAIN s.node_cache_ THEN Raised(s, "AssertionError")
  ELSE
    LET f == IF row.folder = None \/ folder_is_entry
             THEN Returned(s, row.folder)
             ELSE query_node(s, row.folder)
        blob == IF row.data = NoData THEN NoData ELSE Unpickle(row.data)
        node == Entry(row.type, row.path, blob, f.ret, row.stamp, row.dirty,
                      IF row.generated # 0 THEN 1 ELSE 0)
        s1 == [f.s EXCEPT !.node_cache_ = Put(@, id, node)]
    IN  IF f.exn # "" THEN f
        ELSE IF node.path = NoPath THEN Returned(s1, id)
        ELSE IF node.path \in DOMAIN s1.path_cache_
             THEN Raised(s1, "AssertionError")
        ELSE Returned([s1 EXCEPT !.path_cache_ = Put(@, node.path, id)], id)

query_node(s, id) ==
  IF id \in DOMAIN s.node_cache_ THEN Returned(s, id)
  ELSE IF id \notin DOMAIN s.cn.nodes
       THEN Raised(s, "TypeError")          \* fetchone() is None
  ELSE import_node(s, id, s.cn.nodes[id], FALSE)

\* Database.query_path: the cached Entry, else the first row with the path.
query_path(s, path) ==
  IF path \in DOMAIN s.path_cache_ THEN Returned(s, s.path_cache_[path])
  ELSE LET ids == {i \in DOMAIN s.cn.nodes : s.cn.nodes[i].path = path}
       IN  IF ids = {} THEN Returned(s, None)
           ELSE LET id == CHOOSE i \in ids : \A j \in ids : i <= j
                IN  import_node(s, id, s.cn.nodes[id], FALSE)

\* Database.add_file: the row is inserted with the defaults of the table for
\* stamp and dirty, and imported from the tuple (type, 0, 1, 1, path,
\* folder_entry, None).
add_file(s, type, path, generated, folder_entry) ==
  LET s1 == insert_into_nodes(s, Row(type, 0, 0, IF generated THEN 1 ELSE 0,
                                     path, folder_entry, NoData))
  IN  import_node(s1, s1.cn.seq, Row(type, 0, 1, 1, path, folder_entry, NoData),
                  TRUE)

\* Database.add_folder
add_folder(s, parent, path) ==
  IF path \in DOMAIN s.path_cache_ THEN Raised(s, "AssertionError")
  ELSE IF isabs(path) THEN Raised(s, "AssertionError")
  ELSE add_file(s, Mkdir, path, FALSE, parent)

\* Database.add_output
add_output(s, folder_entry, path) ==
  IF path \in DOMAIN s.path_cache_ THEN Raised(s, "AssertionError")
  ELSE IF isabs(path) THEN Raised(s, "AssertionError")
  ELSE IF folder_entry # None /\ split_head(path) # Object(s, folder_entry).path
       THEN Raised(s, "AssertionError")
  ELSE add_file(s, Output, path, FALSE, folder_entry)

\* Database.add_source
add_source(s, path, generated) ==
  IF path \in DOMAIN s.path_cache_ THEN Raised(s, "AssertionError")
  ELSE IF ~isabs(path) THEN Raised(s, "AssertionError")
  ELSE add_file(s, Source, path, generated, None)

\* Database.add_group
add_group(s, name) == add_file(s, Group, GroupPath(name), FALSE, None)

\* Database.add_command
add_command(s, type, folder, data) ==
  LET blob == IF data = NoData THEN NoData ELSE CompatPickle(data)
      s1 == insert_into_nodes(s, Row(type, 0, 1, 0, NoPath, folder, blob))
      entry == Entry(type, NoPath, data, folder, 0, 1, 0)
  IN  Returned([s1 EXCEPT !.node_cache_ = Put(@, s1.cn.seq, entry)], s1.cn.seq)

\* "update nodes set type = ?, folder = ?, data = ?, dirty = ? where id = ?"
update_nodes_command(rows, id, type, folder, blob, dirty) ==
  IF id \in DOMAIN rows
  THEN [rows EXCEPT ![id] = [@ EXCEPT !.type = type, !.folder = folder,
                                      !.data = blob, !.dirty = dirty]]
  ELSE rows

\* The Entry object named id is assigned the attributes of `new`.
SetObject(s, id, new) ==
  IF id \in DOMAIN s.node_cache_
  THEN [s EXCEPT !.node_cache_[id] = new]
  ELSE [s EXCEPT !.unlinked[id] = new]

\* Database.update_command: returns whether the command changed.
update_command(s, entry, type, folder, data, refactoring) ==
  LET blob == IF data = NoData THEN NoData ELSE CompatPickle(data)
      e == Object(s, entry)
  IN  IF e.type = type /\ e.folder = folder /\ e.blob = data
      THEN Returned(s, FALSE)
      ELSE IF refactoring
      THEN Raised(SetObject(s, entry, [e EXCEPT !.type = type,
                                                !.folder = folder,
                                                !.blob = blob]),
                  "Exception")
      ELSE Returned(
             SetObject([s EXCEPT !.cn.nodes =
                          update_nodes_command(@, entry, type, folder, blob, 1)],
                       entry,
                       [e EXCEPT !.type = type, !.folder = folder,
                                 !.blob = blob, !.dirty = 1]),
             TRUE)

\* A row of an edge table: the edge from node `incoming` to node `outgoing`.
EdgeRow(from_entry, to_entry) == [outgoing |-> to_entry, incoming |-> from_entry]

\* Database.add_weak_edge; the insertion of a row the table holds violates its
\* unique constraint.
add_weak_edge(s, from_entry, to_entry) ==
  IF EdgeRow(from_entry, to_entry) \in s.cn.weak_edges
  THEN Raised(s, "IntegrityError")
  ELSE
    LET s1 == [s EXCEPT !.cn.weak_edges = @ \cup {EdgeRow(from_entry, to_entry)}]
        to == Object(s1, to_entry)
    IN  Returned(IF to.weak_inputs # {}
                 THEN SetObject(s1, to_entry,
                                [to EXCEPT !.weak_inputs = @ \cup {from_entry}])
                 ELSE s1,
                 None)

\* Database.add_strong_edge
add_strong_edge(s, from_entry, to_entry) ==
  IF EdgeRow(from_entry, to_entry) \in s.cn.edges
  THEN Raised(s, "IntegrityError")
  ELSE
    LET s1 == [s EXCEPT !.cn.edges = @ \cup {EdgeRow(from_entry, to_entry)}]
        to == Object(s1, to_entry)
        s2 == IF to.strong_inputs # {}
              THEN SetObject(s1, to_entry,
                             [to EXCEPT !.strong_inputs = @ \cup {from_entry}])
              ELSE s1
        from == Object(s2, from_entry)
    IN  Returned(IF from.outgoing # {}
                 THEN SetObject(s2, from_entry,
                                [from EXCEPT !.outgoing = @ \cup {to_entry}])
                 ELSE s2,
                 None)

\* Database.add_dynamic_edge
add_dynamic_edge(s, from_entry, to_entry) ==
  IF EdgeRow(from_entry, to_entry) \in s.cn.dynamic_edges
  THEN Raised(s, "IntegrityError")
  ELSE
    LET s1 == [s EXCEPT !.cn.dynamic_edges =
                          @ \cup {EdgeRow(from_entry, to_entry)}]
        to == Object(s1, to_entry)
        s2 == IF to.dynamic_inputs # {}
              THEN SetObject(s1, to_entry,
                             [to EXCEPT !.dynamic_inputs = @ \cup {from_entry}])
              ELSE s1
        from == Object(s2, from_entry)
    IN  Returned(IF from.outgoing # {}
                 THEN SetObject(s2, from_entry,
                                [from EXCEPT !.outgoing = @ \cup {to_entry}])
                 ELSE s2,
                 None)

\* Database.drop_dynamic_edge: sqlite rejects its statement, "delete from
\* dynamic_edges edges where ...", at the alias: nothing is deleted.
drop_dynamic_edge(s, from_entry, to_entry) == Raised(s, "OperationalError")

\* Database.drop_weak_edge: "delete from weak_edges edges where ...".
drop_weak_edge(s, from_entry, to_entry) == Raised(s, "OperationalError")

\* Database.drop_strong_edge; set.remove of an absent element raises.
drop_strong_edge(s, from_entry, to_entry) ==
  LET s1 == [s EXCEPT !.cn.edges = @ \ {EdgeRow(from_entry, to_entry)}]
      to == Object(s1, to_entry)
      s2 == IF to.strong_inputs # {}
            THEN SetObject(s1, to_entry,
                           [to EXCEPT !.strong_inputs = @ \ {from_entry}])
            ELSE s1
      from == Object(s2, from_entry)
  IN  IF to.strong_inputs # {} /\ from_entry \notin to.strong_inputs
      THEN Raised(s1, "KeyError")
      ELSE IF from.outgoing # {} /\ to_entry \notin from.outgoing
      THEN Raised(s2, "KeyError")
      ELSE Returned(IF from.outgoing # {}
                    THEN SetObject(s2, from_entry,
                                   [from EXCEPT !.outgoing = @ \ {to_entry}])
                    ELSE s2,
                    None)

\* The loop "for id, in cursor: entry = self.query_node(id); set.add(entry)":
\* the rows are visited in the order of their ids; `acc` is the set so far,
\* which is what the set holds when query_node raises.
RECURSIVE query_nodes(_, _, _)
query_nodes(s, ids, acc) ==
  IF ids = {} THEN Returned(s, acc)
  ELSE LET id == CHOOSE i \in ids : \A j \in ids : i <= j
           r == query_node(s, id)
       IN  IF r.exn # "" THEN [r EXCEPT !.ret = acc]
           ELSE query_nodes(r.s, ids \ {id}, acc \cup {r.ret})

OutgoingOf(table, id) == {e.outgoing : e \in {x \in table : x.incoming = id}}
IncomingOf(table, id) == {e.incoming : e \in {x \in table : x.outgoing = id}}

\* Database.query_outgoing
query_outgoing(s, node) ==
  IF Object(s, node).outgoing # {} THEN Returned(s, Object(s, node).outgoing)
  ELSE
    LET r1 == query_nodes(s, OutgoingOf(s.cn.edges, node), {})
        s1 == SetObject(r1.s, node,
                        [Object(r1.s, node) EXCEPT !.outgoing = r1.ret])
        r2 == query_nodes(s1, OutgoingOf(s.cn.dynamic_edges, node), r1.ret)
        s2 == SetObject(r2.s, node,
                        [Object(r2.s, node) EXCEPT !.outgoing = r2.ret])
    IN  IF r1.exn # "" THEN Raised(s1, r1.exn)
        ELSE IF r2.exn # "" THEN Raised(s2, r2.exn)
        ELSE Returned(s2, r2.ret)

\* Database.query_weak_inputs
query_weak_inputs(s, node) ==
  IF Object(s, node).weak_inputs # {}
  THEN Returned(s, Object(s, node).weak_inputs)
  ELSE
    LET r == query_nodes(s, IncomingOf(s.cn.weak_edges, node), {})
        s1 == SetObject(r.s, node,
                        [Object(r.s, node) EXCEPT !.weak_inputs = r.ret])
    IN  IF r.exn # "" THEN Raised(s1, r.exn) ELSE Returned(s1, r.ret)

\* Database.query_strong_inputs
query_strong_inputs(s, node) ==
  IF Object(s, node).strong_inputs # {}
  THEN Returned(s, Object(s, node).strong_inputs)
  ELSE
    LET r == query_nodes(s, IncomingOf(s.cn.edges, node), {})
        s1 == SetObject(r.s, node,
                        [Object(r.s, node) EXCEPT !.strong_inputs = r.ret])
    IN  IF r.exn # "" THEN Raised(s1, r.exn) ELSE Returned(s1, r.ret)

\* Database.query_dynamic_inputs
query_dynamic_inputs(s, node) ==
  IF Object(s, node).dynamic_inputs # {}
  THEN Returned(s, Object(s, node).dynamic_inputs)
  ELSE
    LET r == query_nodes(s, IncomingOf(s.cn.dynamic_edges, node), {})
        s1 == SetObject(r.s, node,
                        [Object(r.s, node) EXCEPT !.dynamic_inputs = r.ret])
    IN  IF r.exn # "" THEN Raised(s1, r.exn) ELSE Returned(s1, r.ret)

\* "update nodes set dirty = 1 where id = ?"
update_nodes_dirty(rows, id) ==
  IF id \in DOMAIN rows THEN [rows EXCEPT ![id].dirty = 1] ELSE rows

\* Database.mark_dirty: entry.dirty |= nodetypes.KnownDirty
mark_dirty(s, entry) ==
  Returned(SetObject([s EXCEPT !.cn.nodes = update_nodes_dirty(@, entry)],
                     entry, [Object(s, entry) EXCEPT !.dirty = 1]),
           None)

NoStamp == -1        \* stamp=None; also os.path.getmtime raising

\* Database.unmark_dirty.  `mtime` is what os.path.getmtime(entry.path) gives,
\* NoStamp when it raises.  A stamp of None cannot be stored: the stamp
\* column is declared not null.
unmark_dirty(s, entry, stamp, mtime) ==
  LET e == Object(s, entry)
      stamp1 == IF stamp = NoStamp \/ stamp = 0            \* if not stamp:
                THEN IF isCommand(e.type) THEN 0
                     ELSE IF e.path # NoPath /\ mtime # NoStamp THEN mtime
                     ELSE stamp
                ELSE stamp
  IN  IF stamp1 = NoStamp THEN Raised(s, "IntegrityError")
      ELSE Returned(
             SetObject([s EXCEPT !.cn.nodes =
                          update_nodes_stamp(@, entry, stamp1)],
                       entry, [e EXCEPT !.dirty = 0, !.stamp = stamp1]),
             None)

\* "delete from T where incoming = ? or outgoing = ?"
delete_edges_of(table, id) ==
  {e \in table : e.incoming # id /\ e.outgoing # id}

\* Database.drop_entry: the rows go; the Entry object leaves node_cache_ and
\* nothing else.
drop_entry(s, entry) ==
  LET s1 == [s EXCEPT !.cn.nodes = IF entry \in DOMAIN @ THEN Del(@, entry) ELSE @,
                      !.cn.edges = delete_edges_of(@, entry),
                      !.cn.dynamic_edges = delete_edges_of(@, entry),
                      !.cn.weak_edges = delete_edges_of(@, entry)]
  IN  IF entry \notin DOMAIN s1.node_cache_ THEN Raised(s1, "KeyError")
      ELSE Returned([s1 EXCEPT !.node_cache_ = Del(@, entry),
                               !.unlinked = Put(@, entry, s1.node_cache_[entry])],
                    None)

drop_folder_unchecked(s, entry, rmdir) ==
  IF Object(s, entry).type # Mkdir THEN Raised(s, "AssertionError")
  ELSE IF isabs(Object(s, entry).path) THEN Raised(s, "AssertionError")
  ELSE IF rmdir \notin {"ok", "ENOENT"} THEN Raised(s, "OSError")
  ELSE drop_entry(s, entry)

\* Database.drop_folder.  `rmdir` is how os.rmdir ends: "ok", "ENOENT" or
\* another error.
drop_folder(s, entry, rmdir) ==
  IF Object(s, entry).type # Mkdir THEN Raised(s, "AssertionError")
  ELSE IF isabs(Object(s, entry).path) THEN Raised(s, "AssertionError")
  ELSE IF rmdir \notin {"ok", "ENOENT"} THEN Raised(s, "OSError")
  ELSE IF \E i \in DOMAIN s.cn.nodes : s.cn.nodes[i].folder = entry
       THEN Raised(s, "Exception")
  ELSE drop_entry(s, entry)

\* Database.drop_output.  `unlink` is how os.unlink ends.
drop_output(s, output, unlink) ==
  IF Object(s, output).type # Output THEN Raised(s, "AssertionError")
  ELSE IF isabs(Object(s, output).path) THEN Raised(s, "AssertionError")
  ELSE IF unlink \notin {"ok", "ENOENT"} THEN Raised(s, "OSError")
  ELSE drop_entry(s, output)

\* Database.drop_command, its loop over the set query_outgoing returned, in
\* every order a set can be iterated in: the results it can end with.
RECURSIVE drop_outputs(_, _, _)
drop_outputs(s, outputs, unlink) ==
  IF outputs = {} THEN {Returned(s, None)}
  ELSE UNION {IF Object(s, output).type # Output
              THEN {Raised(s, "AssertionError")}
              ELSE LET r == drop_output(s, output, unlink)
                   IN  IF r.exn # "" THEN {r}
                       ELSE drop_outputs(r.s, outputs \ {output}, unlink)
              : output \in outputs}

\* Database.drop_command
drop_command(s, cmd_entry, unlink) ==
  LET q == query_outgoing(s, cmd_entry)
  IN  IF q.exn # "" THEN {q}
      ELSE {IF r.exn # "" THEN r ELSE drop_entry(r.s, cmd_entry) :
              r \in drop_outputs(q.s, q.ret, unlink)}

\* Database.drop_group
drop_group(s, group) == drop_entry(s, group)

(***************************************************************************)
(* The state after TaskMasterParent.__init__ and TaskMasterChild.__init__: *)
(* the workers are spawned and none has connected.  The task graph is any  *)
(* DAG over 1..n; the ready list holds the tasks with no incoming task, and *)
(* max_parallel is at most the number of tasks.                            *)
(***************************************************************************)
NoResponse == [task_id |-> 0, ok |-> TRUE]

CommandRow == [type |-> "cmd", stamp |-> 0, dirty |-> 1]
OutputRow == [type |-> "out", stamp |-> 0, dirty |-> 0]    \* add_file: defaults

InitGraph(n, E) ==
  /\ tasks = 1 .. n
  /\ deps = [t \in 1 .. n |-> {a \in 1 .. n : <<a, t>> \in E}]
  /\ outgoing = [t \in 1 .. n |-> SeqOfSet({b \in 1 .. n : <<t, b>> \in E})]
  /\ incoming = [t \in 1 .. n |-> {a \in 1 .. n : <<a, t>> \in E}]
  /\ task_graph = SeqOfSet({t \in 1 .. n : ~\E a \in 1 .. n : <<a, t>> \in E})
  /\ nodes = [i \in (1 .. n) \cup {OutputOf(t) : t \in 1 .. n} |->
                IF i \in 1 .. n THEN CommandRow ELSE OutputRow]
  /\ sent = [t \in 1 .. n |-> 0]
  /\ ran = [t \in 1 .. n |-> "none"]

InitProcesses(N) ==
  /\ num_processes = N
  /\ outstanding = <<>>
  /\ idle = {}
  /\ build_failed = FALSE
  /\ closed = {}
  /\ pump_cancelled = FALSE
  /\ toWorker = [w \in 1 .. N |-> <<>>]
  /\ chan = [w \in 1 .. N |-> <<>>]
  /\ resChan = [w \in 1 .. N |-> <<>>]
  /\ wpc = [w \in 1 .. N |-> "spawned"]
  /\ wcur = [w \in 1 .. N |-> NoResponse]
  /\ completed = <<>>
  /\ completed_read = 0
  /\ parent_build_failed = FALSE
  /\ tm_close = "open"
  /\ processed = {}

\* The node store before any method is called on it.
InitStore(s) ==
  /\ cn = s.cn
  /\ node_cache_ = s.node_cache_
  /\ path_cache_ = s.path_cache_
  /\ unlinked = s.unlinked
  /\ calls = 0

Init ==
  \E n \in 1 .. MaxTasks :
    /\ \E E \in SUBSET {e \in Edges : e[2] <= n} : InitGraph(n, E)
    /\ \E cpu_count \in 1 .. MaxCpu, max_parallel \in 1 .. Min(n, MaxParallel) :
         /\ cx = [jobs |-> 0]
         /\ InitProcesses(NumProcesses(0, cpu_count, max_parallel))
    /\ InitStore(create_tables)

(***************************************************************************)
(* The worker processes (WorkerChild).                                     *)
(***************************************************************************)
Alive == {w \in Workers : wpc[w] \notin {"exited", "crashed"}}

MasterVars == <<task_graph, incoming, outstanding, idle, build_failed, closed,
                pump_cancelled, toWorker, completed, sent, ran>>
DriverVars == <<parent_build_failed, tm_close, nodes, completed_read,
                processed>>
StoreVars == <<cn, node_cache_, path_cache_, unlinked, calls>>
GraphVars == <<cx, num_processes, tasks, outgoing, deps, StoreVars>>

\* WorkerChild.receiveConnected
WorkerChild_receiveConnected(w) ==
  /\ wpc[w] = "spawned"
  /\ wpc' = [wpc EXCEPT ![w] = "ready"]
  /\ chan' = [chan EXCEPT ![w] = Append(@, ReadyMsg)]
  /\ UNCHANGED <<GraphVars, MasterVars, DriverVars, resChan, wcur>>

\* A worker that runs the task and goes on to the results message without
\* sending ranTask.
WorkerChild_receiveTask_silent(w) ==
  /\ wpc[w] = "ready"
  /\ toWorker[w] # <<>>
  /\ Head(toWorker[w]).id = "task"
  /\ \E ok \in BOOLEAN :
       wcur' = [wcur EXCEPT ![w] = [task_id |-> Head(toWorker[w]).task_id,
                                    ok |-> ok]]
  /\ toWorker' = [toWorker EXCEPT ![w] = Tail(@)]
  /\ wpc' = [wpc EXCEPT ![w] = "ran"]
  /\ UNCHANGED <<GraphVars, DriverVars, resChan, chan, task_graph, incoming,
                 outstanding, idle, build_failed, closed, pump_cancelled,
                 completed, sent, ran>>

\* WorkerChild.receiveTask, lines 60-85: the task is run and ranTask is sent
\* on the task channel.
WorkerChild_receiveTask(w) ==
  /\ wpc[w] = "ready"
  /\ toWorker[w] # <<>>
  /\ Head(toWorker[w]).id = "task"
  /\ \E ok \in BOOLEAN :
       LET task_id == Head(toWorker[w]).task_id
       IN  /\ chan' = [chan EXCEPT ![w] = Append(@, RanTaskMsg(ok, task_id))]
           /\ wcur' = [wcur EXCEPT ![w] = [task_id |-> task_id, ok |-> ok]]
  /\ toWorker' = [toWorker EXCEPT ![w] = Tail(@)]
  /\ wpc' = [wpc EXCEPT ![w] = "ran"]
  /\ UNCHANGED <<GraphVars, DriverVars, resChan, task_graph, incoming,
                 outstanding, idle, build_failed, closed, pump_cancelled,
                 completed, sent, ran>>

\* The new timestamps of a task's outputs, each stamped mtime.
NewTimestamps(task_id, ok, mtime) ==
  IF ok
  THEN [i \in 1 .. Len(Task_outputs(task_id)) |->
          <<Task_outputs(task_id)[i], mtime>>]
  ELSE <<>>

\* WorkerChild.receiveTask, lines 87-104: the results message is sent on the
\* result channel.
WorkerChild_sendResults(w) ==
  /\ wpc[w] = "ran"
  /\ \E mtime \in 1 .. MaxMtime :
       resChan' = [resChan EXCEPT ![w] =
                     Append(@, ResultsMsg(w, wcur[w].task_id, wcur[w].ok,
                              NewTimestamps(wcur[w].task_id, wcur[w].ok,
                                            mtime)))]
  /\ wpc' = [wpc EXCEPT ![w] = "ready"]
  /\ wcur' = [wcur EXCEPT ![w] = NoResponse]
  /\ UNCHANGED <<GraphVars, MasterVars, DriverVars, chan>>

\* WorkerChild.receiveClose: the worker exits; its listener in the task
\* master sees the channel end with NormalShutdown.
WorkerChild_receiveClose(w) ==
  /\ wpc[w] = "ready"
  /\ toWorker[w] # <<>>
  /\ Head(toWorker[w]).id = "close"
  /\ toWorker' = [toWorker EXCEPT ![w] = Tail(@)]
  /\ wpc' = [wpc EXCEPT ![w] = "exited"]
  /\ chan' = [chan EXCEPT ![w] = Append(@, ErrorMsg(NormalShutdown))]
  /\ UNCHANGED <<GraphVars, DriverVars, resChan, wcur, task_graph, incoming,
                 outstanding, idle, build_failed, closed, pump_cancelled,
                 completed, sent, ran>>

\* A worker process dies at any point; its listener sees an error other than
\* NormalShutdown.
WorkerCrash(w) ==
  /\ w \in Alive
  /\ Cardinality({c \in Workers : wpc[c] = "crashed"}) < MaxCrashes
  /\ wpc' = [wpc EXCEPT ![w] = "crashed"]
  /\ chan' = [chan EXCEPT ![w] = Append(@, ErrorMsg(Crashed))]
  /\ UNCHANGED <<GraphVars, MasterVars, DriverVars, resChan, wcur>>

(***************************************************************************)
(* The task master process: one action per message its pump delivers.      *)
(***************************************************************************)
Delivered(w, id) ==
  /\ ~pump_cancelled
  /\ chan[w] # <<>>
  /\ Head(chan[w]).id = id
  /\ chan' = [chan EXCEPT ![w] = Tail(@)]

\* WorkerParent.receiveReady
WorkerParent_receiveReady(w) ==
  /\ Delivered(w, "ready")
  /\ SetMaster(onWorkerReady(Master, w).m)
  /\ UNCHANGED <<GraphVars, DriverVars, resChan, wpc, wcur>>

\* WorkerParent.receiveRanTask
WorkerParent_receiveRanTask(w) ==
  /\ Delivered(w, "ranTask")
  /\ \E m \in onWorkerRanTask(Master, w, Head(chan[w])) : SetMaster(m)
  /\ UNCHANGED <<GraphVars, DriverVars, resChan, wpc, wcur>>

\* WorkerParent.receiveError
WorkerParent_receiveError(w) ==
  /\ Delivered(w, "error")
  /\ SetMaster(onWorkerDied(Master, w, Head(chan[w]).error, Alive))
  /\ UNCHANGED <<GraphVars, DriverVars, resChan, wpc, wcur>>

\* TaskMasterChild.receiveClose
TaskMasterChild_receiveClose ==
  /\ ~pump_cancelled
  /\ tm_close = "closing"
  /\ SetMaster(procman_shutdown(Master, Workers))
  /\ tm_close' = "closed"
  /\ UNCHANGED <<GraphVars, parent_build_failed, nodes, completed_read,
                 processed, chan, resChan, wpc, wcur>>

(***************************************************************************)
(* The driver process: one action per message its pump delivers.           *)
(***************************************************************************)
\* TaskMasterParent.messageMap['completed']
TaskMasterParent_receiveCompleted ==
  /\ completed_read < Len(completed)
  /\ completed_read' = completed_read + 1
  /\ SetDriver(receiveCompleted(Driver, completed[completed_read + 1]))
  /\ UNCHANGED <<GraphVars, MasterVars, processed, chan, resChan, wpc, wcur>>

\* WorkerIOListener.messageMap['results']
WorkerIOListener_results(w) ==
  /\ resChan[w] # <<>>
  /\ resChan' = [resChan EXCEPT ![w] = Tail(@)]
  /\ SetDriver(processResults(Driver, Head(resChan[w])))
  /\ processed' = processed \cup {Head(resChan[w]).task_id}
  /\ UNCHANGED <<GraphVars, MasterVars, completed_read, chan, wpc, wcur>>

Next ==
  \/ \E w \in Workers : WorkerChild_receiveConnected(w)
  \/ \E w \in Workers : WorkerChild_receiveTask(w)
  \/ \E w \in Workers : WorkerChild_sendResults(w)
  \/ \E w \in Workers : WorkerChild_receiveClose(w)
  \/ \E w \in Workers : WorkerCrash(w)
  \/ \E w \in Workers : WorkerParent_receiveReady(w)
  \/ \E w \in Workers : WorkerParent_receiveRanTask(w)
  \/ \E w \in Workers : WorkerParent_receiveError(w)
  \/ TaskMasterChild_receiveClose
  \/ TaskMasterParent_receiveCompleted
  \/ \E w \in Workers : WorkerIOListener_results(w)

Spec == Init /\ [][Next]_vars

(***************************************************************************)
(* Scheduling: every process runs its own message pump, so a worker, the   *)
(* task master and the driver each keep taking the steps they can take.    *)
(* Every step consumes a message or advances a worker, so a run takes      *)
(* finitely many steps and weak fairness of the processes' steps together  *)
(* says what weak fairness of each process says: the run does not stop     *)
(* while a process can step.  Nothing makes a worker die.                  *)
(***************************************************************************)
WorkerStep(w) ==
  /\ w \in Workers
  /\ \/ WorkerChild_receiveConnected(w)
     \/ WorkerChild_receiveTask(w)
     \/ WorkerChild_sendResults(w)
     \/ WorkerChild_receiveClose(w)

MasterStep ==
  \/ \E w \in Workers : WorkerParent_receiveReady(w)
  \/ \E w \in Workers : WorkerParent_receiveRanTask(w)
  \/ \E w \in Workers : WorkerParent_receiveError(w)
  \/ TaskMasterChild_receiveClose

DriverStep ==
  \/ TaskMasterParent_receiveCompleted
  \/ \E w \in Workers : WorkerIOListener_results(w)

Progress == (\E w \in Workers : WorkerStep(w)) \/ MasterStep \/ DriverStep

Fairness == WF_vars(Progress)

FairSpec == Spec /\ Fairness

(***************************************************************************)
(* TaskMasterParent.__init__ alone, for every value of its inputs: the     *)
(* worker count is not yet assigned (0) in the initial state.              *)
(***************************************************************************)
InitNum ==
  /\ \E jobs \in 0 .. MaxJobs, cpu_count \in 1 .. MaxCpuCount,
        max_parallel \in 1 .. MaxTaskCount :
       cx = [jobs |-> jobs, cpu_count |-> cpu_count,
             max_parallel |-> max_parallel]
  /\ InitGraph(0, {})
  /\ InitProcesses(0)
  /\ InitStore(create_tables)

TaskMasterParent_init ==
  /\ num_processes = 0
  /\ num_processes' = NumProcesses(cx.jobs, cx.cpu_count, cx.max_parallel)
  /\ UNCHANGED <<cx, tasks, outgoing, deps, MasterVars, DriverVars, chan,
                 resChan, wpc, wcur, StoreVars>>

NextNum == TaskMasterParent_init

SpecNum == InitNum /\ [][NextNum]_vars

(***************************************************************************)
(* The node store alone: after a configure has written the database, in   *)
(* the same process or (the caches empty) in an earlier one, the methods   *)
(* of Database are called in any order, with entries the caller got from   *)
(* the store.  No build runs.                                              *)
(***************************************************************************)
RunVars == <<cx, num_processes, tasks, outgoing, deps, MasterVars, DriverVars,
             chan, resChan, wpc, wcur>>

\* What a configure leaves: a folder, a command in it, the output of the
\* command, a source the command reads; written in this order, up to `n` of
\* them.
Configured(n) ==
  LET s0 == create_tables
      s1 == IF n >= 1 THEN add_folder(s0, None, "d").s ELSE s0
      s2 == IF n >= 2 THEN add_command(s1, Cxx, 1, <<"a">>).s ELSE s1
      s3 == IF n >= 3
            THEN add_strong_edge(add_output(s2, 1, "d/o").s, 2, 3).s ELSE s2
      s4 == IF n >= 4
            THEN add_strong_edge(add_source(s3, "/s", FALSE).s, 4, 2).s ELSE s3
  IN  s4

\* The store after query_outgoing, query_strong_inputs, query_weak_inputs and
\* query_dynamic_inputs have been called on every cached node: each Entry
\* holds what the tables hold (every node they name is cached already).
Queried(s) ==
  [s EXCEPT !.node_cache_ =
     [id \in DOMAIN @ |->
        [@[id] EXCEPT
           !.outgoing = OutgoingOf(s.cn.edges, id)
                          \cup OutgoingOf(s.cn.dynamic_edges, id),
           !.strong_inputs = IncomingOf(s.cn.edges, id),
           !.weak_inputs = IncomingOf(s.cn.weak_edges, id),
           !.dynamic_inputs = IncomingOf(s.cn.dynamic_edges, id)]]]

\* The process that holds the store has just written it, or has reopened it,
\* or has written it and looked up the adjacency of its nodes.
InitDb ==
  /\ cx = [jobs |-> 0]
  /\ InitGraph(0, {})
  /\ InitProcesses(0)
  /\ \E n \in 0 .. MaxNodes, use \in {"written", "reopened", "queried"} :
       InitStore(CASE use = "written" -> Configured(n)
                   [] use = "reopened" -> flush_caches(Configured(n))
                   [] use = "queried" ->
                        Queried(Configured(n)))

Cached == DOMAIN node_cache_
CachedOf(types) == {e \in Cached : node_cache_[e].type \in types}
CachedCommands == {e \in Cached : isCommand(node_cache_[e].type)}
Folders == {None} \cup CachedOf({Mkdir})
Stamps == {NoStamp} \cup (0 .. MaxMtime)
Mtimes == {NoStamp} \cup (1 .. MaxMtime)
OsOutcomes == {"ok", "ENOENT", "EACCES"}

\* One call of a method that ends as `r`.
Call(r) ==
  /\ calls < MaxCalls
  /\ calls' = calls + 1
  /\ SetStore(r.s)
  /\ UNCHANGED RunVars

Insert(r) == cn.seq < MaxNodes /\ Call(r)

Database_flush_caches == Call(Returned(flush_caches(Store), None))

Database_add_folder(parent, path) == Insert(add_folder(Store, parent, path))

Database_add_output(folder_entry, path) ==
  Insert(add_output(Store, folder_entry, path))

Database_add_source(path, generated) ==
  Insert(add_source(Store, path, generated))

Database_add_group(name) == Insert(add_group(Store, name))

Database_add_command(type, folder, data) ==
  Insert(add_command(Store, type, folder, data))

Database_update_command(entry, type, folder, data, refactoring) ==
  Call(update_command(Store, entry, type, folder, data, refactoring))

Database_add_weak_edge(from_entry, to_entry) ==
  Call(add_weak_edge(Store, from_entry, to_entry))

Database_add_strong_edge(from_entry, to_entry) ==
  Call(add_strong_edge(Store, from_entry, to_entry))

Database_add_dynamic_edge(from_entry, to_entry) ==
  Call(add_dynamic_edge(Store, from_entry, to_entry))

Database_drop_dynamic_edge(from_entry, to_entry) ==
  Call(drop_dynamic_edge(Store, from_entry, to_entry))

Database_drop_weak_edge(from_entry, to_entry) ==
  Call(drop_weak_edge(Store, from_entry, to_entry))

Database_drop_strong_edge(from_entry, to_entry) ==
  Call(drop_strong_edge(Store, from_entry, to_entry))

Database_query_node(id) == Call(query_node(Store, id))

Database_query_path(path) == Call(query_path(Store, path))

Database_query_outgoing(node) == Call(query_outgoing(Store, node))

Database_query_weak_inputs(node) == Call(query_weak_inputs(Store, node))

Database_query_strong_inputs(node) == Call(query_strong_inputs(Store, node))

Database_query_dynamic_inputs(node) == Call(query_dynamic_inputs(Store, node))

Database_mark_dirty(entry) == Call(mark_dirty(Store, entry))

Database_unmark_dirty(entry, stamp, mtime) ==
  Call(unmark_dirty(Store, entry, stamp, mtime))

Database_drop_entry(entry) == Call(drop_entry(Store, entry))

Database_drop_folder(entry, rmdir) == Call(drop_folder(Store, entry, rmdir))

Database_drop_output(output, unlink) == Call(drop_output(Store, output, unlink))

Database_drop_command(cmd_entry, unlink) ==
  \E r \in drop_command(Store, cmd_entry, unlink) : Call(r)

Database_drop_group(group) == Call(drop_group(Store, group))

\* The reply of doCompile as receiveTask sends it: a results message with
\* the dependency paths the compiler reported.
CxxResultsMsg(w, t, ok, updates, paths) ==
  [id |-> "results", pid |-> w, task_id |-> t, ok |-> ok, updates |-> updates,
   deps |-> paths]

DepLists == {<<>>, <<"/s">>}

\* TaskMasterParent.processResults on the results of a Cxx task that
\* succeeded: it calls no method of Database.
TaskMasterParent_processResults(message) ==
  /\ calls < MaxCalls
  /\ calls' = calls + 1
  /\ SetDriver(processResults(Driver, message))
  /\ UNCHANGED <<cx, num_processes, tasks, outgoing, deps, MasterVars,
                 completed_read, processed, chan, resChan, wpc, wcur,
                 cn, node_cache_, path_cache_, unlinked>>

NextDb ==
  \/ \E t \in CachedOf({Cxx}), paths \in DepLists :
       TaskMasterParent_processResults(CxxResultsMsg(1, t, TRUE, <<>>, paths))
  \/ Database_flush_caches
  \/ \E parent \in Folders, path \in Paths : Database_add_folder(parent, path)
  \/ \E folder_entry \in Folders, path \in Paths :
       Database_add_output(folder_entry, path)
  \/ \E path \in Paths, generated \in BOOLEAN :
       Database_add_source(path, generated)
  \/ \E name \in GroupNames : Database_add_group(name)
  \/ \E type \in {Command, Cxx}, folder \in Folders, data \in DataValues :
       Database_add_command(type, folder, data)
  \/ \E entry \in CachedCommands, type \in {Command, Cxx}, folder \in Folders,
        data \in DataValues, refactoring \in BOOLEAN :
       Database_update_command(entry, type, folder, data, refactoring)
  \/ \E from_entry \in Cached, to_entry \in Cached :
       Database_add_weak_edge(from_entry, to_entry)
  \/ \E from_entry \in Cached, to_entry \in Cached :
       Database_add_strong_edge(from_entry, to_entry)
  \/ \E from_entry \in Cached, to_entry \in Cached :
       Database_add_dynamic_edge(from_entry, to_entry)
  \/ \E from_entry \in Cached, to_entry \in Cached :
       Database_drop_dynamic_edge(from_entry, to_entry)
  \/ \E from_entry \in Cached, to_entry \in Cached :
       Database_drop_weak_edge(from_entry, to_entry)
  \/ \E from_entry \in Cached, to_entry \in Cached :
       Database_drop_strong_edge(from_entry, to_entry)
  \/ \E id \in DOMAIN cn.nodes : Database_query_node(id)
  \/ \E path \in Paths \cup {GroupPath(name) : name \in GroupNames} :
       Database_query_path(path)
  \/ \E node \in Cached : Database_query_outgoing(node)
  \/ \E node \in Cached : Database_query_weak_inputs(node)
  \/ \E node \in Cached : Database_query_strong_inputs(node)
  \/ \E node \in Cached : Database_query_dynamic_inputs(node)
  \/ \E entry \in Cached : Database_mark_dirty(entry)
  \/ \E entry \in Cached, stamp \in Stamps, mtime \in Mtimes :
       Database_unmark_dirty(entry, stamp, mtime)
  \/ \E entry \in Cached : Database_drop_entry(entry)
  \/ \E entry \in Cached, rmdir \in OsOutcomes :
       Database_drop_folder(entry, rmdir)
  \/ \E output \in Cached, unlink \in OsOutcomes :
       Database_drop_output(output, unlink)
  \/ \E cmd_entry \in CachedCommands, unlink \in OsOutcomes :
       Database_drop_command(cmd_entry, unlink)
  \/ \E group \in CachedOf({Group}) : Database_drop_group(group)

SpecDb == InitDb /\ [][NextDb]_vars

(***************************************************************************)
(* Properties.                                                             *)
(***************************************************************************)
Pushed(t) == t \in Range(task_graph) \/ sent[t] > 0

\* C1: a task message for task T is sent only after a ranTask with ok=true
\* has been received for every task of T's incoming set.
C1_DependenciesAcknowledged ==
  \A t \in tasks : sent[t] > 0 => \A d \in deps[t] : ran[d] = "ok"

C1_Witness == \E t \in tasks : deps[t] # {} /\ sent[t] > 0

\* C2: the results message of task T is processed before any task of
\* T.outgoing is pushed onto the ready queue.
C2_ResultsBeforeRelease ==
  \A t \in tasks : Pushed(t) => \A d \in deps[t] : d \in processed

\* C3: when a results message with ok=true and updates [(path, mtime), ...]
\* is processed, every listed output node is persisted via
\* unmark_dirty(output, mtime): it is Clean with stamp = mtime afterwards.
C3_UpdatesPersisted ==
  [][\A w \in Workers :
       (WorkerIOListener_results(w) /\ Head(resChan[w]).ok) =>
         LET updates == Head(resChan[w]).updates
         IN  \A i \in 1 .. Len(updates) :
               /\ nodes'[updates[i][1]] =
                    update_nodes_stamp(nodes, updates[i][1],
                                       updates[i][2])[updates[i][1]]
               /\ nodes'[updates[i][1]].dirty = 0
               /\ nodes'[updates[i][1]].stamp = updates[i][2]]_vars

\* C4: after a run in which every task succeeded and completed{status:ok}
\* was sent, no command node remains dirty in the node store (the next run's
\* task graph is empty).
C4_SecondRunIsEmpty ==
  ((\A t \in tasks : ran[t] = "ok")
     /\ (\E i \in 1 .. Len(completed) : completed[i].status = "ok")
     /\ (\A t \in tasks : t \in processed))
  => \A t \in tasks : nodes[t].dirty = 0

\* C5: at most one completed message is sent to the driver in a run.
C5_OneCompleted == Len(completed) <= 1

\* C10: with jobs = 0 the worker count is ceil(1.5 x cpu_count), at least 2,
\* clamped to max_parallel; and a worker count is determined for every value
\* of the jobs option.
C10_WorkerCount ==
  num_processes # 0 =>
    /\ num_processes # Unbound
    /\ cx.jobs = 0 =>
         num_processes =
           Min(Max((cx.cpu_count * 3 + 1) \div 2, 2), cx.max_parallel)

FailureSeen(w) ==
  \/ WorkerParent_receiveRanTask(w) /\ ~Head(chan[w]).ok
  \/ /\ WorkerParent_receiveError(w)
     /\ Head(chan[w]).error # NormalShutdown
     /\ \E t \in DOMAIN outstanding : outstanding[t] = w

NoFault ==
  /\ \A w \in Workers : wpc[w] # "crashed"
  /\ \A w \in Workers : \A i \in 1 .. Len(chan[w]) : chan[w][i].ok
  /\ \A t \in tasks : ran[t] # "failed"

BuildDone ==
  /\ \A t \in tasks : sent[t] > 0 /\ ran[t] = "ok"
  /\ \E i \in 1 .. Len(completed) : completed[i].status = "ok"
  /\ Workers \subseteq closed

\* C6: if no task reports ok=false and no worker dies, then under fair
\* message delivery every task is eventually dispatched and acknowledged,
\* completed{status:ok} is eventually sent and every worker is eventually
\* closed.
C6_BuildCompletes == ([]NoFault) => <>BuildDone

C6_Witness == BuildDone /\ NoFault /\ Cardinality(tasks) > 1

\* C7: once a ranTask with ok=false has been received or a worker crash has
\* been detected, build_failed is set, the idle set is emptied by closing its
\* workers, and no task message is sent at any later point of the run.
C7_FailureStopsDispatch ==
  [][/\ \A w \in Workers :
          FailureSeen(w) => build_failed' /\ idle' = {} /\ idle \subseteq closed'
     /\ build_failed => build_failed' /\ sent' = sent]_vars

\* C8: a worker that dies with an error other than normal shutdown while a
\* task is recorded for it in outstanding makes the task master send
\* completed{status:crashed, task_id} with the id of that task and set
\* build_failed; a worker that dies holding no task produces no crashed
\* message.
C8_CrashReported ==
  [][\A w \in Workers :
       (WorkerParent_receiveError(w) /\ Head(chan[w]).error # NormalShutdown)
       => LET held == {t \in DOMAIN outstanding : outstanding[t] = w}
          IN  IF held # {}
              THEN /\ \E t \in held :
                        completed' = Append(completed, CompletedMsg("crashed", t))
                   /\ build_failed'
              ELSE completed' = completed]_vars

C8_Witness ==
  \E i \in 1 .. Len(completed) :
    /\ completed[i].status = "crashed"
    /\ build_failed
    /\ completed[i].task_id \in DOMAIN outstanding
    /\ wpc[outstanding[completed[i].task_id]] = "crashed"
    /\ Cardinality(DOMAIN outstanding) > 1

\* C9: after a task failure or a worker crash the remaining workers drain and
\* close: every worker that was running a task when the build failed
\* eventually finishes or is closed, and no live worker is left parked in the
\* idle set forever.
Running(w) ==
  /\ w \in Alive
  /\ \/ wpc[w] = "ran"
     \/ \E i \in 1 .. Len(toWorker[w]) : toWorker[w][i].id = "task"

Parked(w) == w \in Alive /\ w \in idle

C9_WorkersDrain ==
  \A w \in AllWorkers :
    /\ (w \in Workers /\ build_failed /\ Running(w))
         ~> (w \in closed \/ ~Running(w))
    /\ (w \in Workers /\ build_failed /\ Parked(w)) ~> ~Parked(w)

C9_Witness ==
  \E w \in Workers :
    /\ build_failed
    /\ w \in idle
    /\ wpc[w] = "exited"
    /\ \E t \in tasks : ran[t] = "failed"

(***************************************************************************)
(* Properties of the node store.                                           *)
(***************************************************************************)
\* The step is one in which drop_entry deleted the Entry from node_cache_.
Dropped(entry) == entry \in DOMAIN node_cache_ /\ entry \in DOMAIN unlinked'

\* C11: after drop_entry(n), directly or through drop_output, drop_folder,
\* drop_command or drop_group, on a node n with a path, query_path(n.path)
\* returns null.
C11_DroppedPathUnknown ==
  [][\A entry \in DOMAIN node_cache_ :
       (Dropped(entry) /\ node_cache_[entry].path # NoPath)
         => query_path(Store', node_cache_[entry].path).ret = None]_vars

\* C12: at most one node exists per distinct path: an insertion whose path is
\* already present in the store fails, also when the existing node is in the
\* database and not in the path cache.
C12_OnePathOneNode ==
  \A i \in DOMAIN cn.nodes : \A j \in DOMAIN cn.nodes :
    (cn.nodes[i].path # NoPath /\ cn.nodes[i].path = cn.nodes[j].path) => i = j

\* The fields of a node as flush_caches followed by query_node gives them.
Reread(s, id) == query_node(flush_caches(s), id)

SameAsStored(s, id) ==
  LET r == Reread(s, id)
      cached == s.node_cache_[id]
      stored == r.s.node_cache_[id]
  IN  /\ r.exn = ""
      /\ cached.type = stored.type
      /\ cached.path = stored.path
      /\ cached.folder = stored.folder
      /\ cached.stamp = stored.stamp
      /\ cached.dirty = stored.dirty
      /\ cached.generated = stored.generated

\* C13: correctness does not depend on cache presence: after every call, the
\* fields (type, path, folder, stamp, dirty, generated) of every cached node
\* object equal the fields obtained by flush_caches and re-reading the node
\* from the database.
C13_CacheEqualsDatabase ==
  [][\A id \in DOMAIN node_cache_' : SameAsStored(Store', id)]_vars

\* The node's row holds this type, this folder and (pickled) this data.
Holds(s, entry, type, folder, data) ==
  /\ entry \in DOMAIN s.cn.nodes
  /\ s.cn.nodes[entry].type = type
  /\ s.cn.nodes[entry].folder = folder
  /\ s.cn.nodes[entry].data = (IF data = NoData THEN NoData ELSE CompatPickle(data))

\* C14: update_command(entry, type, folder, data, refactoring=false) returns
\* "no change" and leaves the node untouched whenever type, folder and data
\* equal the values the node currently holds (so the second of two equal
\* calls in a row reports no change and does not re-dirty the node).
C14_UnchangedCommandIsNoChange ==
  [][\A entry \in CachedCommands, type \in {Command, Cxx}, folder \in Folders,
        data \in DataValues :
       (/\ Database_update_command(entry, type, folder, data, FALSE)
        /\ Holds(Store, entry, type, folder, data))
       => /\ update_command(Store, entry, type, folder, data, FALSE).ret = FALSE
          /\ Store' = Store]_vars

\* The node is Clean with this stamp in the cache and in the table.
CleanWithStamp(s, entry, stamp) ==
  /\ entry \in DOMAIN s.node_cache_
  /\ s.node_cache_[entry].stamp = stamp
  /\ s.node_cache_[entry].dirty = 0
  /\ entry \in DOMAIN s.cn.nodes
  /\ s.cn.nodes[entry].stamp = stamp
  /\ s.cn.nodes[entry].dirty = 0

\* C15: after unmark_dirty(n, t) with stat success, n.stamp = t and n.dirty
\* is Clean in both the cache and storage, for every node n and every
\* supplied stamp t (including t = 0); when no stamp is supplied for an
\* artifact, the stamp becomes the sampled filesystem mtime.
C15_UnmarkDirtyStamps ==
  [][\A entry \in Cached, stamp \in Stamps, mtime \in Mtimes \ {NoStamp} :
       Database_unmark_dirty(entry, stamp, mtime)
       => /\ stamp # NoStamp => CleanWithStamp(Store', entry, stamp)
          /\ (stamp = NoStamp /\ ~isCommand(node_cache_[entry].type))
               => CleanWithStamp(Store', entry, mtime)]_vars

\* C16: when unmark_dirty is called on an artifact with no stamp and sampling
\* the filesystem mtime fails, the operation warns and continues without
\* raising, and the node is left as dirty as it was, in both the cache and
\* storage, with its stamp unchanged.
C16_StatFailureLeavesDirty ==
  [][\A entry \in Cached :
       (/\ Database_unmark_dirty(entry, NoStamp, NoStamp)
        /\ ~isCommand(node_cache_[entry].type))
       => /\ unmark_dirty(Store, entry, NoStamp, NoStamp).exn = ""
          /\ node_cache_'[entry].dirty = node_cache_[entry].dirty
          /\ node_cache_'[entry].stamp = node_cache_[entry].stamp
          /\ cn'.nodes = cn.nodes]_vars

\* What a query returns when it does not raise, else nothing.
Answer(r) == IF r.exn = "" THEN r.ret ELSE {}

\* C17: the incoming and outgoing views are exact inverses after any sequence
\* of add_*_edge / drop_*_edge / drop_entry calls interleaved with queries:
\* b is returned by query_outgoing(a) iff a is returned by
\* query_strong_inputs(b) or query_dynamic_inputs(b), and no query returns a
\* node that has been dropped.
C17_ViewsAreInverse ==
  \A a \in Cached :
    /\ \A b \in Cached :
         (/\ query_outgoing(Store, a).exn = ""
          /\ query_strong_inputs(Store, b).exn = ""
          /\ query_dynamic_inputs(Store, b).exn = "")
         => (b \in query_outgoing(Store, a).ret
               <=> a \in query_strong_inputs(Store, b).ret
                         \cup query_dynamic_inputs(Store, b).ret)
    /\ Answer(query_outgoing(Store, a)) \subseteq DOMAIN cn.nodes
    /\ Answer(query_strong_inputs(Store, a)) \subseteq DOMAIN cn.nodes
    /\ Answer(query_dynamic_inputs(Store, a)) \subseteq DOMAIN cn.nodes
    /\ Answer(query_weak_inputs(Store, a)) \subseteq DOMAIN cn.nodes

\* The Output nodes the command produces: its strong outgoing outputs.
OutputsOf(s, c) ==
  {o \in OutgoingOf(s.cn.edges, c) :
     o \in DOMAIN s.cn.nodes /\ s.cn.nodes[o].type = Output}

\* Every outgoing edge of the command, strong or dynamic, leads to an Output.
OnlyOutputs(s, c) ==
  OutgoingOf(s.cn.edges, c) \cup OutgoingOf(s.cn.dynamic_edges, c)
    = OutputsOf(s, c)

NoEdgeAt(s, ids) ==
  \A e \in s.cn.edges \cup s.cn.weak_edges \cup s.cn.dynamic_edges :
    e.incoming \notin ids /\ e.outgoing \notin ids

\* C18: drop_command(c) removes every Output node produced by c and then c
\* itself: afterwards neither c nor any of its outputs is a node of the
\* store, no edge in any relation references them, and all other nodes
\* remain (the files of the outputs can be unlinked or are already gone).
C18_DropCommandDropsOutputs ==
  [][\A c \in CachedCommands, unlink \in {"ok", "ENOENT"} :
       (Database_drop_command(c, unlink) /\ OnlyOutputs(Store, c))
       => LET gone == {c} \cup OutputsOf(Store, c)
          IN  /\ DOMAIN cn'.nodes = DOMAIN cn.nodes \ gone
              /\ NoEdgeAt(Store', gone)]_vars

\* A row of the table names the folder as its folder.
InUse(s, f) == \E i \in DOMAIN s.cn.nodes : s.cn.nodes[i].folder = f

\* What C19 says of one call of drop_folder(f) that ends as `rmdir` says.
DropFolderAsClaimed(f, rmdir) ==
  Database_drop_folder(f, rmdir)
  => /\ InUse(Store, f) =>
          /\ drop_folder(Store, f, rmdir).exn # ""
          /\ f \in DOMAIN cn'.nodes
     /\ ~InUse(Store, f) =>
          /\ drop_folder(Store, f, rmdir).exn = ""
          /\ f \notin DOMAIN cn'.nodes
          /\ f \notin DOMAIN node_cache_'

NodesOfPaths(s, paths) ==
  {i \in DOMAIN s.cn.nodes : s.cn.nodes[i].path \in Range(paths)}

\* C20: after the results of a Cxx task reporting dependency paths D are
\* processed, the task's dynamic inputs in the node store are exactly the
\* nodes for the paths in D: every path of D has a node with a dynamic edge to
\* the task, and every other dynamic edge into the task has been dropped.
C20_DynamicInputsFollowDeps ==
  [][\A t \in CachedOf({Cxx}), paths \in DepLists :
       TaskMasterParent_processResults(CxxResultsMsg(1, t, TRUE, <<>>, paths))
       => /\ \A path \in Range(paths) : NodesOfPaths(Store', <<path>>) # {}
          /\ IncomingOf(cn'.dynamic_edges, t) = NodesOfPaths(Store', paths)]_vars

(***************************************************************************)
(* Properties of the worker's two messages (WorkerChild.receiveTask).      *)
(***************************************************************************)
\* Worker w has sent ranTask{ok, task_id}: the message is on its task channel
\* or the task master has received it.
RanTaskSent(w, task_id, ok) ==
  \/ \E i \in 1 .. Len(chan[w]) : chan[w][i] = RanTaskMsg(ok, task_id)
  \/ ran[task_id] = (IF ok THEN "ok" ELSE "failed")

\* C21: a worker sends the results message of a task on the result channel
\* only after it has sent ranTask, with the same ok and task_id, on the task
\* channel; and a worker takes a task message only when it has no task in
\* hand, and sends the ranTask of that task before anything else.
C21_RanTaskThenResults ==
  [][\A w \in Workers :
       /\ Len(resChan'[w]) > Len(resChan[w])
            => LET r == resChan'[w][Len(resChan'[w])]
               IN  /\ r.id = "results"
                   /\ RanTaskSent(w, r.task_id, r.ok)
                   /\ wcur[w] = [task_id |-> r.task_id, ok |-> r.ok]
       /\ (Len(toWorker'[w]) < Len(toWorker[w])
           /\ Head(toWorker[w]).id = "task")
            => /\ wcur[w] = NoResponse
               /\ \E ok \in BOOLEAN :
                    chan'[w] = Append(chan[w],
                                 RanTaskMsg(ok, Head(toWorker[w]).task_id))]_vars

\* A worker has sent both messages of a task.
C21_Witness ==
  \E w \in Workers :
    /\ resChan[w] # <<>>
    /\ RanTaskSent(w, Head(resChan[w]).task_id, Head(resChan[w]).ok)
    /\ wcur[w] = NoResponse

(***************************************************************************)
(* Properties of the node store, continued.                                *)
(***************************************************************************)
\* The edge rows of the three relations that have node n as an endpoint.
EdgesAt(s, n) ==
  {e \in s.cn.edges \cup s.cn.weak_edges \cup s.cn.dynamic_edges :
     e.incoming = n \/ e.outgoing = n}

\* The nodes the four adjacency queries return for node a.
Neighbours(s, a) ==
  Answer(query_outgoing(s, a)) \cup Answer(query_strong_inputs(s, a))
    \cup Answer(query_weak_inputs(s, a))
    \cup Answer(query_dynamic_inputs(s, a))

\* C22: after drop_entry(n) no strong, weak or dynamic edge has n as an
\* endpoint, and no query_outgoing / query_strong_inputs / query_weak_inputs /
\* query_dynamic_inputs on a surviving node returns n, also when the node's
\* adjacency was cached before the drop.
C22_DropEntryDropsEdges ==
  [][\A n \in Cached :
       Database_drop_entry(n)
       => /\ n \notin DOMAIN cn'.nodes
          /\ EdgesAt(Store', n) = {}
          /\ \A a \in DOMAIN node_cache_' : n \notin Neighbours(Store', a)]_vars

\* query_outgoing returns, for every cached node, the union of the node's
\* strong and dynamic outgoing endpoints as the edge tables hold them.
ExactOutgoing(s) ==
  \A a \in DOMAIN s.node_cache_ :
    /\ query_outgoing(s, a).exn = ""
    /\ query_outgoing(s, a).ret
         = OutgoingOf(s.cn.edges, a) \cup OutgoingOf(s.cn.dynamic_edges, a)

\* C23: query_outgoing(node) returns exactly the union of the node's strong
\* and dynamic outgoing endpoints as stored in the edge relations, and every
\* add_strong_edge / add_dynamic_edge / drop_strong_edge / drop_dynamic_edge
\* call and every query keeps it so; in particular the endpoint is still
\* returned when a strong and a dynamic edge join one pair and one of the two
\* is dropped.
C23_OutgoingIsUnion ==
  [][\A a \in Cached, b \in Cached :
       (/\ \/ Database_add_strong_edge(a, b)
           \/ Database_add_dynamic_edge(a, b)
           \/ Database_drop_strong_edge(a, b)
           \/ Database_drop_dynamic_edge(a, b)
           \/ Database_query_outgoing(a)
        /\ ExactOutgoing(Store))
       => ExactOutgoing(Store')]_vars

(***************************************************************************)
(* Properties of the task master's tables.                                 *)
(***************************************************************************)
\* C24: the outstanding table holds exactly the tasks that were dispatched
\* and are not complete: task t is in outstanding iff a task message was sent
\* for it and no ranTask, ok or failed, has been received for it.
C24_OutstandingExact ==
  \A t \in tasks :
    t \in DOMAIN outstanding <=> (sent[t] > 0 /\ ran[t] = "none")

\* C25: a command node's stamp is 0 in every reachable store state, in its
\* row and in its cached Entry object, whatever add_command, update_command,
\* mark_dirty and unmark_dirty calls (with or without a supplied stamp) were
\* made on it.
C25_CommandStampIsZero ==
  /\ \A id \in DOMAIN cn.nodes :
       isCommand(cn.nodes[id].type) => cn.nodes[id].stamp = 0
  /\ \A id \in DOMAIN node_cache_ :
       isCommand(node_cache_[id].type) => node_cache_[id].stamp = 0

\* The statuses of the completed messages sent so far.
CompletedStatuses == {completed[i].status : i \in 1 .. Len(completed)}

\* C26: completed{status: ok} is sent only when every task of the task graph
\* has been dispatched and acknowledged with ranTask ok=true, and never in a
\* run in which completed{status: failed} or completed{status: crashed} is
\* sent.
C26_OkMeansAllTasksRan ==
  "ok" \in CompletedStatuses
    => /\ \A t \in tasks : sent[t] > 0 /\ ran[t] = "ok"
       /\ "failed" \notin CompletedStatuses
       /\ "crashed" \notin CompletedStatuses

\* completed{status: ok} was sent in a run of a graph with a dependency.
C26_Witness ==
  /\ "ok" \in CompletedStatuses
  /\ \E t \in tasks : deps[t] # {}
  /\ num_processes > 1

\* How many times task t is on the ready list.
Queued(t) == Cardinality({i \in 1 .. Len(task_graph) : task_graph[i] = t})

\* C27: each task is pushed onto the ready list at most once and dispatched
\* to at most one worker: a task is on the ready list once or has been sent
\* in one task message, never both and never twice.
C27_DispatchedOnce ==
  \A t \in tasks : Queued(t) + sent[t] <= 1

\* A task with two dependencies has been dispatched.
C27_Witness ==
  \E t \in tasks : Cardinality(deps[t]) = 2 /\ sent[t] = 1

\* The outstanding tasks worker w is recorded as the holder of.
HeldBy(w) == {t \in DOMAIN outstanding : outstanding[t] = w}

\* C28: no worker is both in the idle set and the recorded holder of an
\* outstanding task, each worker holds at most one outstanding task, and no
\* worker that was closed is in the idle set.
C28_IdleHoldersClosed ==
  /\ \A w \in idle : HeldBy(w) = {}
  /\ \A w \in Workers : Cardinality(HeldBy(w)) <= 1
  /\ idle \cap closed = {}

\* update_command finds the command changed (its comparison, line 170).
ChangeDetected(s, entry, type, folder, data) ==
  ~(/\ Object(s, entry).type = type
    /\ Object(s, entry).folder = folder
    /\ Object(s, entry).blob = data)

\* C29: update_command with refactoring=true, when it detects a change,
\* raises the refactoring error and leaves the store unchanged: the node's
\* type, folder, data and dirty bit are the same before and after the call,
\* in the row of the nodes table and in the cached Entry object.
C29_RefactoringLeavesStore ==
  [][\A entry \in CachedCommands, type \in {Command, Cxx}, folder \in Folders,
        data \in DataValues :
       (/\ Database_update_command(entry, type, folder, data, TRUE)
        /\ ChangeDetected(Store, entry, type, folder, data))
       => /\ update_command(Store, entry, type, folder, data, TRUE).exn
               = "Exception"
          /\ cn'.nodes = cn.nodes
          /\ node_cache_'[entry].type = node_cache_[entry].type
          /\ node_cache_'[entry].folder = node_cache_[entry].folder
          /\ node_cache_'[entry].blob = node_cache_[entry].blob
          /\ node_cache_'[entry].dirty = node_cache_[entry].dirty]_vars

====
